---------------------------- MODULE Spec2Model ----------------------------
(***************************************************************************)
(* A model of src/src/subprocess-win32.cc: the Subprocess overlapped-read  *)
(* state machine, the SubprocessSet event loop (Add, DoWork, NextFinished, *)
(* Clear, NotifyInterrupted) and the BatchSubprocess framing protocol      *)
(* (script generation and ParseOutput).                                    *)
(*                                                                         *)
(* Strings are sequences of one-character strings.  Positions are 0-based  *)
(* as in std::string; NPOS stands for string::npos.                        *)
(***************************************************************************)
EXTENDS Integers, Sequences, FiniteSets, TLC

(***************************************************************************)
(* Bounds of the model.                                                    *)
(***************************************************************************)
\* Calls of Add in a run (job handles).
MaxJobs == 2
\* Batch host processes DoWork may create in a run.
MaxBatches == 2
\* Data-carrying read completions delivered to one directly started child.
MaxReads == 1
\* Ctrl-C / Ctrl-Break signals delivered during a run.
MaxInterrupts == 1
\* Jobs in a generated batch script of the parser specification.
MaxScriptJobs == 2
\* Pieces concatenated into a free-form buffer of the parser specification.
MaxPieces == 3

\* Bytes the child of the capture specification writes at most.
MaxOutput == 3

\* Finish calls made on one object in the capture specification.
MaxFinishCalls == 2

(***************************************************************************)
(* std::string helpers.                                                    *)
(***************************************************************************)
\* string::npos is SIZE_MAX; the code only ever adds 1 to it (which wraps
\* to 0) or compares with it, and -1 + 1 = 0 gives the same arithmetic.
NPOS == 0 - 1

Min(a, b) == IF a <= b THEN a ELSE b

Str_complete_token ==
  <<"_","_","b","a","t","c","h","i","t","e","m","_",
    "c","o","m","p","l","e","t","e","_","_">>

Str_start_token ==
  <<"_","_","b","a","t","c","h","i","t","e","m","_","_">>

Str_echo == <<"e","c","h","o"," ">>

Str_and_echo == <<" ","&","&"," ","e","c","h","o"," ">>

\* buf_ of a process whose executable was not found (Subprocess::Start).
Str_not_found ==
  <<"C","r","e","a","t","e","P","r","o","c","e","s","s"," ","f","a","i",
    "l","e","d",":"," ","T","h","e"," ","s","y","s","t","e","m"," ","c",
    "a","n","n","o","t"," ","f","i","n","d"," ","t","h","e"," ","f","i",
    "l","e"," ","s","p","e","c","i","f","i","e","d",".","\n">>

DigitChars == <<"0","1","2","3","4","5","6","7","8","9">>

IsDigit(c) == \E d \in 1..10 : DigitChars[d] = c

DigitVal(c) == (CHOOSE d \in 1..10 : DigitChars[d] = c) - 1

\* isspace() of the C locale.
IsSpace(c) == c \in {" ", "\t", "\n", "\r"}

\* printf("%d", i) for i >= 0.
RECURSIVE Dec(_)
Dec(i) == IF i < 10 THEN <<DigitChars[i + 1]>>
          ELSE Dec(i \div 10) \o <<DigitChars[(i % 10) + 1]>>

\* The one element of a singleton set.
Only(S) == CHOOSE x \in S : TRUE

\* The result of a search whose matches are at the positions hits.
First(hits) ==
  IF hits = {} THEN NPOS ELSE CHOOSE i \in hits : \A j \in hits : i <= j

\* s.find(tok, from): the first position >= from where tok occurs, or npos.
Find(s, tok, from) ==
  Only({ First(hits) :
           hits \in {{ i \in from .. (Len(s) - Len(tok)) :
                         \A k \in 1..Len(tok) : s[i + k] = tok[k] }} })

\* s.find_first_of(ch, from).
FindFirstOf(s, ch, from) ==
  Only({ First(hits) :
           hits \in {{ i \in from .. (Len(s) - 1) : s[i + 1] = ch }} })

\* s.substr(pos, n) and the range copied by append(s, pos, n): n = NPOS
\* stands for a count that reaches past the end of s.
Substr(s, pos, n) ==
  IF n = NPOS THEN SubSeq(s, pos + 1, Len(s))
  ELSE SubSeq(s, pos + 1, Min(pos + n, Len(s)))

\* The digits of s from 0-based position i on, as a number (acc so far).
RECURSIVE AtoiDigits(_, _, _)
AtoiDigits(s, i, acc) ==
  IF i < Len(s) /\ IsDigit(s[i + 1])
  THEN AtoiDigits(s, i + 1, acc * 10 + DigitVal(s[i + 1]))
  ELSE acc

RECURSIVE SkipSpace(_, _)
SkipSpace(s, i) ==
  IF i < Len(s) /\ IsSpace(s[i + 1]) THEN SkipSpace(s, i + 1) ELSE i

\* atoi(&s[from]) for from <= s.length(): leading white space, an optional
\* sign, then digits; 0 when no digits follow.  s[s.length()] is the
\* terminating '\0'.
Atoi(s, from) ==
  LET i == SkipSpace(s, from)
  IN IF i < Len(s) /\ s[i + 1] = "-" THEN 0 - AtoiDigits(s, i + 1, 0)
     ELSE IF i < Len(s) /\ s[i + 1] = "+" THEN AtoiDigits(s, i + 1, 0)
     ELSE AtoiDigits(s, i, 0)

(***************************************************************************)
(* BatchSubprocess::ParseOutput, one loop iteration per step.  A parse     *)
(* state holds the locals of the function and the object's buf_.           *)
(***************************************************************************)
\* ranges_to_keep grows by one entry per iteration of the first loop; the
\* model records at most RangeCap entries, more than any terminating run
\* within the bounds produces.
RangeCap == MaxPieces + MaxScriptJobs + MaxJobs + 2

EmptyMap == [k \in {} |-> <<>>]

\* m[k] = v of a std::map.
MapPut(m, k, v) ==
  [x \in (DOMAIN m) \cup {k} |-> IF x = k THEN v ELSE m[x]]

\* successful_jobs.count(k) == 1 / job_output[k] of DoWork.
MapGet(m, k) == IF k \in DOMAIN m THEN m[k] ELSE <<>>

\* Values atoi may return when it is handed a pointer past the end of buf_.
GarbageIds == {0, 7}

\* atoi(&buf_[jobIdStart]): reading past the terminator is undefined; ub is
\* the value such a read yields.
ParseJobId(buf, jobIdStart, ub) ==
  IF jobIdStart <= Len(buf) THEN Atoi(buf, jobIdStart) ELSE ub

\* Entry of ParseOutput up to the first loop test.  iter is history: the
\* number of loop iterations executed so far, modulo 2.
ParseBegin(buf) ==
  [ pc |-> "strip",
    buf |-> buf,
    ranges |-> << <<0, Len(buf)>> >>,
    loc |-> Find(buf, Str_complete_token, 0),
    start_pos |-> 0,
    successful_jobs |-> {},
    job_output |-> EmptyMap,
    iter |-> 0 ]

\* One iteration of the completion-token loop (requires ps.loc # NPOS).
StripStep(ps, ub) ==
  LET jobIdStart == ps.loc + Len(Str_complete_token) + 1
      jobId == ParseJobId(ps.buf, jobIdStart, ub)
      start_pos == FindFirstOf(ps.buf, "\n", jobIdStart) + 1
      n == Len(ps.ranges)
      shortened == [ps.ranges EXCEPT ![n] = <<ps.ranges[n][1], ps.loc>>]
      pushed == IF n < RangeCap
                THEN Append(shortened, <<start_pos, Len(ps.buf)>>)
                ELSE shortened
  IN [ps EXCEPT !.ranges = pushed,
                !.successful_jobs = @ \cup {jobId},
                !.start_pos = start_pos,
                !.loc = Find(ps.buf, Str_complete_token, start_pos),
                !.iter = 1 - @]

\* stripped_buf: the kept ranges of buf_, in order.
RECURSIVE KeepRanges(_, _, _)
KeepRanges(buf, ranges, i) ==
  IF i > Len(ranges) THEN <<>>
  ELSE LET first == ranges[i][1]
           second == ranges[i][2]
           count == IF second >= first THEN second - first ELSE NPOS
       IN Substr(buf, first, count) \o KeepRanges(buf, ranges, i + 1)

\* Variant: the early return also empties buf_.
StripEnd_Clear(ps) ==
  LET stripped == KeepRanges(ps.buf, ps.ranges, 1)
      loc == Find(stripped, Str_start_token, 0)
  IN [ps EXCEPT !.buf = IF loc = NPOS THEN <<>> ELSE stripped,
                !.loc = loc,
                !.pc = IF loc = NPOS THEN "done" ELSE "split"]

\* After the first loop: buf_ = stripped_buf, then the search for the first
\* start token and the early return when there is none.
StripEnd(ps) ==
  LET stripped == KeepRanges(ps.buf, ps.ranges, 1)
      loc == Find(stripped, Str_start_token, 0)
  IN [ps EXCEPT !.buf = stripped,
                !.loc = loc,
                !.pc = IF loc = NPOS THEN "done" ELSE "split"]

\* Variant: every job's output is taken up to the end of the buffer.
SplitStep_ToEnd(ps, ub) ==
  LET jobIdStart == ps.loc + Len(Str_start_token) + 1
      jobId == ParseJobId(ps.buf, jobIdStart, ub)
      start_pos == FindFirstOf(ps.buf, "\n", jobIdStart) + 1
      next_loc == Find(ps.buf, Str_start_token, start_pos)
  IN [ps EXCEPT !.job_output =
                    MapPut(@, jobId, Substr(ps.buf, start_pos, NPOS)),
                !.start_pos = start_pos,
                !.loc = next_loc,
                !.iter = 1 - @]

\* One iteration of the start-token loop (requires ps.loc # NPOS).
SplitStep(ps, ub) ==
  LET jobIdStart == ps.loc + Len(Str_start_token) + 1
      jobId == ParseJobId(ps.buf, jobIdStart, ub)
      start_pos == FindFirstOf(ps.buf, "\n", jobIdStart) + 1
      next_loc == Find(ps.buf, Str_start_token, start_pos)
      output_len == IF next_loc = NPOS THEN NPOS ELSE next_loc - start_pos
  IN [ps EXCEPT !.job_output =
                    MapPut(@, jobId, Substr(ps.buf, start_pos, output_len)),
                !.start_pos = start_pos,
                !.loc = next_loc,
                !.iter = 1 - @]

\* After the second loop: buf_ = "".
SplitEnd(ps) == [ps EXCEPT !.buf = <<>>, !.pc = "done"]

\* One step of ParseOutput from parse state ps.
ParseStep(ps, ub) ==
  IF ps.pc = "strip"
  THEN IF ps.loc # NPOS THEN StripStep(ps, ub) ELSE StripEnd(ps)
  ELSE IF ps.loc # NPOS THEN SplitStep(ps, ub) ELSE SplitEnd(ps)

\* ParseOutput run to its return within fuel steps; a result whose pc is
\* not "done" means the call has not returned.
RECURSIVE ParseRun(_, _, _)
ParseRun(ps, ub, fuel) ==
  IF ps.pc = "done" \/ fuel = 0 THEN ps
  ELSE Only({ParseRun(s, ub, fuel - 1) : s \in {ParseStep(ps, ub)}})

\* ParseOutput(successful_jobs, job_output) on an object whose buf_ is buf.
ParseOutput(buf, ub) ==
  Only({ParseRun(ParseBegin(b), ub, 2 * Len(b) + 4) : b \in {buf}})

(***************************************************************************)
(* BatchSubprocess: the generated script and what running it prints.       *)
(***************************************************************************)
\* "<token>=<i>\n": what the echo of a marker prints.
MarkerLine(token, i) == token \o <<"=">> \o Dec(i) \o <<"\n">>

\* batch_id: "echo __batchitem__=%d\n".
BatchId(i) == Str_echo \o MarkerLine(Str_start_token, i)

\* batch_complete: " && echo __batchitem_complete__=%d\n".
BatchComplete(i) == Str_and_echo \o MarkerLine(Str_complete_token, i)

\* The command lines handed to Add; whether the executable one names
\* exists is an input of Start.
Commands == {<<"r","u","n">>, <<"c","l">>}

\* The scheduler hands every job its own command line: that of job number k.
CommandOf(k) == IF k % 2 = 1 THEN <<"r","u","n">> ELSE <<"c","l">>

\* script_contents of the constructor: for job i (0-based, the order of
\* batch_procs) batch_id + command + batch_complete.
RECURSIVE ScriptContents(_, _)
ScriptContents(batch_procs, i) ==
  IF i >= Len(batch_procs) THEN <<>>
  ELSE BatchId(i) \o batch_procs[i + 1].second \o BatchComplete(i)
       \o ScriptContents(batch_procs, i + 1)

\* Variant: the children are recorded last job first.
Children_Reversed(batch_procs) ==
  [i \in 1..Len(batch_procs) |->
     batch_procs[Len(batch_procs) + 1 - i].first]

\* The children recorded by AppendChild, in the order of batch_procs.
Children(batch_procs) ==
  [i \in 1..Len(batch_procs) |-> batch_procs[i].first]

\* What job i of a running script writes to the pipe: the start marker,
\* then the job's own output, then the completion marker when the command
\* exited zero (the short-circuit && of the script line).
JobSegment(i, out, ok) ==
  MarkerLine(Str_start_token, i) \o out
  \o (IF ok THEN MarkerLine(Str_complete_token, i) ELSE <<>>)

\* The whole stream of a script run: jobs is a sequence of [out, ok].
RECURSIVE ScriptStream(_, _)
ScriptStream(jobs, i) ==
  IF i >= Len(jobs) THEN <<>>
  ELSE JobSegment(i, jobs[i + 1].out, jobs[i + 1].ok)
       \o ScriptStream(jobs, i + 1)

(***************************************************************************)
(* State.                                                                  *)
(***************************************************************************)
VARIABLES
  procs,            \* the Subprocess objects, by address (ProcIds)
  os,               \* per object: its overlapped pipe operation (OS side)
  ioport,           \* ioport_: the queued completion keys, oldest first
  running_,         \* vector<Subprocess*>
  finished_,        \* queue<Subprocess*>
  procs_to_batch_,  \* vector<SubProc>: (subprocess, command) pairs
  batch_mode_,
  batch_process_,
  pc,               \* event loop: "idle", "wait" (blocked in
                    \* GetQueuedCompletionStatus), "hung", "fatal"
                    \* (ended by Win32Fatal), "cleared"
  ret,              \* the last call of the scheduler and what it returned
  pushed,           \* history: every push onto finished_, in order
  returned,         \* history: every non-NULL NextFinished result, in order
  nintr,            \* history: Ctrl-C / Ctrl-Break signals delivered so far
  marked,           \* history: the jobs whose completion marker a batch
                    \* host has printed
  nstop,            \* history: how many DoWork calls returned true
  parse,            \* parser specification: the ParseOutput call in progress
  pin,              \* parser specification: the input of that call
  cap               \* capture specification: one Subprocess object, its
                    \* pipe, what its child wrote and what Finish returned

vars == <<procs, os, ioport, running_, finished_, procs_to_batch_,
          batch_mode_, batch_process_, pc, ret, pushed, returned, nintr,
          marked, nstop, parse, pin, cap>>

setVars == <<procs, os, ioport, running_, finished_, procs_to_batch_,
             batch_mode_, batch_process_, pc, ret, pushed, returned, nintr,
             marked, nstop>>

parseVars == <<parse, pin, cap>>

NULL == 0

ProcIds == 1..(MaxJobs + MaxBatches)

\* What the scheduler sees of a call: the operation, whether the executable
\* of an added command exists, and the value returned (a bool as 0 or 1).
Ret(op, arg, val) == [op |-> op, arg |-> arg, val |-> val]

BoolVal(b) == IF b THEN 1 ELSE 0

\* GetExitCodeProcess results the model distinguishes.  CONTROL_C_EXIT is
\* 0xC000013A, written here as the same 32 bits read as a signed number.
CONTROL_C_EXIT == -1073741510

ExitCodes == {0, 1, CONTROL_C_EXIT}

\* dwCtrlType values.
CTRL_C_EVENT == 0

CTRL_BREAK_EVENT == 1

CTRL_CLOSE_EVENT == 2

CtrlTypes == {CTRL_C_EVENT, CTRL_BREAK_EVENT, CTRL_CLOSE_EVENT}

(***************************************************************************)
(* Subprocess.                                                             *)
(***************************************************************************)
\* A slot no object was ever allocated in.
FreeProc ==
  [ st |-> "free", batch |-> FALSE, child_ |-> "NULL", pipe_ |-> "NULL",
    is_reading_ |-> FALSE, buf_ |-> <<>>, use_override_status_ |-> FALSE,
    override_status_ |-> "ExitFailure", children |-> <<>> ]

\* Subprocess::Subprocess().
NewSubprocess == [FreeProc EXCEPT !.st = "live"]

\* No overlapped operation outstanding, nothing written by a child.
NoIo ==
  [ io |-> "none", kind |-> "connect", broken |-> FALSE, data |-> <<>>,
    reads |-> 0, script |-> <<>> ]

\* Subprocess::Start (with SetupPipe).  found: CreateProcess succeeded;
\* otherwise it failed with ERROR_FILE_NOT_FOUND.  Yields the object and
\* its pipe operation.  SetupPipe issues the overlapped ConnectNamedPipe and
\* then opens the client end of the pipe itself, which completes the
\* connect: its completion packet, keyed with the object, is queued on the
\* port before CreateProcess is tried, and the not-found branch closes the
\* pipe with that packet queued.
Start(proc, io, found) ==
  IF found
  THEN [ proc |-> [proc EXCEPT !.pipe_ = "open", !.child_ = "open"],
         io |-> [io EXCEPT !.io = "posted", !.kind = "connect"] ]
  ELSE [ proc |-> [proc EXCEPT !.pipe_ = "NULL", !.buf_ = Str_not_found],
         io |-> [io EXCEPT !.io = "posted", !.kind = "connect"] ]

\* Variant: the bytes of a read are put in front of buf_.
OnPipeReady_Prepend(proc, io, eof) ==
  IF proc.pipe_ = "NULL"
  THEN [ fatal |-> TRUE, proc |-> proc, io |-> io ]
  ELSE IF io.broken
  THEN [ fatal |-> FALSE,
         proc |-> [proc EXCEPT !.pipe_ = "NULL"],
         io |-> [io EXCEPT !.io = "none"] ]
  ELSE LET appended ==
             IF proc.is_reading_ /\ Len(io.data) > 0
             THEN [proc EXCEPT !.buf_ = io.data \o @]
             ELSE proc
           reading == [appended EXCEPT !.is_reading_ = TRUE]
       IN IF eof
          THEN [ fatal |-> FALSE,
                 proc |-> [reading EXCEPT !.pipe_ = "NULL"],
                 io |-> [io EXCEPT !.io = "none", !.data = <<>>] ]
          ELSE [ fatal |-> FALSE,
                 proc |-> reading,
                 io |-> [io EXCEPT !.io = "pending", !.kind = "read",
                                   !.data = <<>>] ]

\* Subprocess::OnPipeReady on the completion recorded in io.  eof: the
\* ReadFile it issues fails at once with ERROR_BROKEN_PIPE.  On an object
\* whose pipe_ is NULL the completed connect is read from overlapped_ and
\* ReadFile fails on the NULL handle with an error that is neither
\* ERROR_BROKEN_PIPE nor ERROR_IO_PENDING: Win32Fatal ends the program.
OnPipeReady(proc, io, eof) ==
  IF proc.pipe_ = "NULL"
  THEN [ fatal |-> TRUE, proc |-> proc, io |-> io ]
  ELSE IF io.broken
  THEN [ fatal |-> FALSE,
         proc |-> [proc EXCEPT !.pipe_ = "NULL"],
         io |-> [io EXCEPT !.io = "none"] ]
  ELSE LET appended ==
             IF proc.is_reading_ /\ Len(io.data) > 0
             THEN [proc EXCEPT !.buf_ = @ \o io.data]
             ELSE proc
           reading == [appended EXCEPT !.is_reading_ = TRUE]
       IN IF eof
          THEN [ fatal |-> FALSE,
                 proc |-> [reading EXCEPT !.pipe_ = "NULL"],
                 io |-> [io EXCEPT !.io = "none", !.data = <<>>] ]
          ELSE [ fatal |-> FALSE,
                 proc |-> reading,
                 io |-> [io EXCEPT !.io = "pending", !.kind = "read",
                                   !.data = <<>>] ]

\* Variant: every nonzero exit code is a failure.
ExitStatusOf_NoInterrupt(exit_code) ==
  IF exit_code = 0 THEN "ExitSuccess" ELSE "ExitFailure"

\* The classification of an exit code at the end of Subprocess::Finish.
ExitStatusOf(exit_code) ==
  IF exit_code = 0 THEN "ExitSuccess"
  ELSE IF exit_code = CONTROL_C_EXIT THEN "ExitInterrupted"
  ELSE "ExitFailure"

\* Subprocess::Finish: the status returned and the object afterwards.
\* exit_code is what GetExitCodeProcess reports once the child has exited.
Finish(proc, exit_code) ==
  IF proc.use_override_status_
  THEN [status |-> proc.override_status_, proc |-> proc]
  ELSE IF proc.child_ = "NULL"
  THEN [status |-> "ExitFailure", proc |-> proc]
  ELSE [status |-> ExitStatusOf(exit_code),
        proc |-> [proc EXCEPT !.child_ = "NULL"]]

\* Subprocess::Done.
Done(proc) == proc.pipe_ = "NULL"

\* Variant: a destructor that closes no handle.
Destroy_NoClose(proc) == [proc EXCEPT !.st = "deleted"]

\* Subprocess::~Subprocess: the pipe is closed and a forgotten child is
\* reaped by Finish; the object is gone afterwards.
Destroy(proc) ==
  [Finish([proc EXCEPT !.pipe_ = "NULL"], CONTROL_C_EXIT).proc
     EXCEPT !.st = "deleted"]

(***************************************************************************)
(* SubprocessSet.                                                          *)
(***************************************************************************)
\* Objects allocated so far; new yields the next address.
NumAlloc == Cardinality({p \in ProcIds : procs[p].st # "free"})

NumBatches ==
  Cardinality({p \in ProcIds : procs[p].st # "free" /\ procs[p].batch})

NumJobs == NumAlloc - NumBatches

\* Variant: the vector is left as it was, nothing is erased.
Remove_Keep(v, x) == v

\* std::remove(v.begin(), v.end(), x) followed by the resize.
Remove(v, x) == SelectSeq(v, LAMBDA e : e # x)

InSeq(v, x) == \E i \in 1..Len(v) : v[i] = x

\* SubprocessSet::SubprocessSet(): batch_mode_(false); the collections are
\* empty and the completion port holds nothing.  The constructor leaves
\* batch_process_ unset; DoWork only compares it with the address of a
\* process that has an event, and the model starts it at a value that is no
\* object's address.
SetInit ==
  /\ procs = [p \in ProcIds |-> FreeProc]
  /\ os = [p \in ProcIds |-> NoIo]
  /\ ioport = <<>>
  /\ running_ = <<>>
  /\ finished_ = <<>>
  /\ procs_to_batch_ = <<>>
  /\ batch_mode_ = FALSE
  /\ batch_process_ = NULL
  /\ pc = "idle"
  /\ ret = Ret("none", "", NULL)
  /\ pushed = <<>>
  /\ returned = <<>>
  /\ nintr = 0
  /\ marked = {}
  /\ nstop = 0

\* SubprocessSet::SetBatchMode(b).  has_runner: SearchPath found dbsrun.exe.
SetBatchMode(b, has_runner) ==
  /\ pc = "idle"
  /\ batch_mode_' = (b /\ has_runner)
  /\ ret' = Ret("SetBatchMode", "", NULL)
  /\ UNCHANGED <<procs, os, ioport, running_, finished_, procs_to_batch_,
                 batch_process_, pc, pushed, returned, nintr, nstop, marked>>

\* The signals of a user interrupt: Ctrl-C and Ctrl-Break.
UserInterrupt(dwCtrlType) == dwCtrlType \in {CTRL_C_EVENT, CTRL_BREAK_EVENT}

\* Variant: a handler that answers Ctrl-C only.
HandlerPosts_CtrlC(dwCtrlType) == dwCtrlType = CTRL_C_EVENT

\* The test of NotifyInterrupted: the control types it posts a null key for.
HandlerPosts(dwCtrlType) ==
  dwCtrlType = CTRL_C_EVENT \/ dwCtrlType = CTRL_BREAK_EVENT

\* Variant: a handler that also discards what is queued in finished_.
NotifyInterrupted_Discard(dwCtrlType) ==
  /\ pc # "fatal"
  /\ nintr < MaxInterrupts
  /\ nintr' = IF UserInterrupt(dwCtrlType) THEN nintr + 1 ELSE nintr
  /\ ioport' = IF HandlerPosts(dwCtrlType)
               THEN Append(ioport, NULL)
               ELSE ioport
  /\ finished_' = <<>>
  /\ UNCHANGED <<procs, os, running_, procs_to_batch_, batch_mode_,
                 batch_process_, pc, ret, pushed, returned, nstop, marked>>

\* SubprocessSet::NotifyInterrupted(dwCtrlType), on the handler's thread.
NotifyInterrupted(dwCtrlType) ==
  /\ pc # "fatal"
  /\ nintr < MaxInterrupts
  /\ nintr' = IF UserInterrupt(dwCtrlType) THEN nintr + 1 ELSE nintr
  /\ ioport' = IF HandlerPosts(dwCtrlType)
               THEN Append(ioport, NULL)
               ELSE ioport
  /\ UNCHANGED <<procs, os, running_, finished_, procs_to_batch_,
                 batch_mode_, batch_process_, pc, ret, pushed, returned,
                 nstop, marked>>

\* SubprocessSet::Add(command).  found: the command's executable exists.
Add(command, found) ==
  /\ pc = "idle"
  /\ NumJobs < MaxJobs
  /\ (batch_mode_ /\ procs_to_batch_ = <<>>) => NumBatches < MaxBatches
  /\ LET subprocess == NumAlloc + 1
         started == Start(NewSubprocess, NoIo, found)
     IN /\ ret' = Ret("Add", IF found THEN "found" ELSE "missing", subprocess)
        /\ IF batch_mode_
           THEN /\ procs' = [procs EXCEPT ![subprocess] = NewSubprocess]
                /\ procs_to_batch_' =
                     Append(procs_to_batch_,
                            [first |-> subprocess, second |-> command])
                /\ UNCHANGED <<os, ioport, running_, finished_, pushed>>
           ELSE /\ procs' = [procs EXCEPT ![subprocess] = started.proc]
                /\ os' = [os EXCEPT ![subprocess] = started.io]
                /\ ioport' = Append(ioport, subprocess)
                /\ IF started.proc.child_ # "NULL"
                   THEN /\ running_' = Append(running_, subprocess)
                        /\ UNCHANGED <<finished_, pushed>>
                   ELSE /\ finished_' = Append(finished_, subprocess)
                        /\ pushed' = Append(pushed, subprocess)
                        /\ UNCHANGED running_
                /\ UNCHANGED procs_to_batch_
  /\ UNCHANGED <<batch_mode_, batch_process_, pc, returned, nintr, nstop,
                 marked>>

\* SubprocessSet::DoWork up to the call of GetQueuedCompletionStatus: the
\* pending jobs are made into one BatchSubprocess, which is started.
\* found: CreateProcess found the batch runner.
DoWorkBegin(found) ==
  /\ pc = "idle"
  /\ pc' = "wait"
  /\ IF Len(procs_to_batch_) > 0
     THEN /\ NumBatches < MaxBatches
          /\ LET host == NumAlloc + 1
                 batch == [NewSubprocess EXCEPT
                             !.batch = TRUE,
                             !.children = Children(procs_to_batch_)]
                 script == ScriptContents(procs_to_batch_, 0)
                 started == Start(batch, [NoIo EXCEPT !.script = script],
                                  found)
             IN /\ batch_process_' = host
                /\ procs' = [procs EXCEPT ![host] = started.proc]
                /\ os' = [os EXCEPT ![host] = started.io]
                /\ ioport' = Append(ioport, host)
                /\ running_' = IF started.proc.child_ # "NULL"
                               THEN Append(running_, host)
                               ELSE running_
                /\ procs_to_batch_' = <<>>
     ELSE /\ found
          /\ UNCHANGED <<procs, os, ioport, running_, procs_to_batch_,
                         batch_process_>>
  /\ UNCHANGED <<finished_, batch_mode_, ret, pushed, returned, nintr,
                 nstop, marked>>

\* Variant: the null-key branch also empties finished_.
DoWorkInterrupted_Drop ==
  /\ ret' = Ret("DoWork", "", BoolVal(TRUE))
  /\ nstop' = nstop + 1
  /\ pc' = "idle"
  /\ finished_' = <<>>
  /\ UNCHANGED <<procs, os, running_, procs_to_batch_, batch_process_,
                 pushed>>

\* The null-key branch of DoWork: the wait was ended by NotifyInterrupted.
DoWorkInterrupted ==
  /\ ret' = Ret("DoWork", "", BoolVal(TRUE))
  /\ nstop' = nstop + 1
  /\ pc' = "idle"
  /\ UNCHANGED <<procs, os, running_, finished_, procs_to_batch_,
                 batch_process_, pushed>>

\* Variant: the children are looked up under ids counted from 1.
DemuxChild_ShiftId(c, child, err, successful_jobs, job_output) ==
  [c EXCEPT !.use_override_status_ = TRUE,
            !.override_status_ = IF (child + 1) \in successful_jobs
                                 THEN "ExitSuccess" ELSE err,
            !.buf_ = MapGet(job_output, child + 1)]

\* The body of the loop over GetChildren() in DoWork: child number child
\* (0-based) of a finished batch gets its status and its output.
DemuxChild(c, child, err, successful_jobs, job_output) ==
  [c EXCEPT !.use_override_status_ = TRUE,
            !.override_status_ = IF child \in successful_jobs
                                 THEN "ExitSuccess" ELSE err,
            !.buf_ = MapGet(job_output, child)]

\* DoWork when the process that became Done is batch_process_.  after: the
\* host and its pipe operation as OnPipeReady left them.  exit_code: what
\* GetExitCodeProcess reports to Finish; ub: what an atoi of ParseOutput
\* past the end of buf_ yields.  Finish leaves buf_ as it is, so the parse
\* reads the buf_ of after.
DoWorkBatchDone(after) ==
  \E ub \in GarbageIds :
  \E parsed \in {ParseOutput(after.proc.buf_, ub)} :
  \E exit_code \in ExitCodes :
  \E fin \in {Finish(after.proc, exit_code)} :
  LET host == batch_process_
      children == fin.proc.children
      IndexOf(q) == CHOOSE i \in 1..Len(children) : children[i] = q
  IN IF parsed.pc # "done"
     THEN /\ pc' = "hung"
          /\ procs' = [procs EXCEPT ![host] = fin.proc]
          /\ os' = [os EXCEPT ![host] = after.io]
          /\ UNCHANGED <<running_, finished_, batch_process_, pushed, ret>>
     ELSE /\ pc' = "idle"
          /\ procs' =
               [q \in ProcIds |->
                  IF q = host
                  THEN Destroy([fin.proc EXCEPT !.buf_ = parsed.buf])
                  ELSE IF InSeq(children, q)
                  THEN DemuxChild(procs[q], IndexOf(q) - 1, fin.status,
                                  parsed.successful_jobs, parsed.job_output)
                  ELSE procs[q]]
          /\ os' = [os EXCEPT ![host] = NoIo]
          /\ finished_' = finished_ \o children
          /\ pushed' = pushed \o children
          /\ running_' = Remove(running_, host)
          /\ batch_process_' = NULL
          /\ ret' = Ret("DoWork", "", BoolVal(FALSE))

\* Variant: DoWork reports stop when a process has become Done.
DoWorkProcDone_Stop(subproc, after) ==
  /\ pc' = "idle"
  /\ procs' = [procs EXCEPT ![subproc] = after.proc]
  /\ os' = [os EXCEPT ![subproc] = after.io]
  /\ IF InSeq(running_, subproc)
     THEN /\ finished_' = Append(finished_, subproc)
          /\ pushed' = Append(pushed, subproc)
          /\ running_' = Remove(running_, subproc)
     ELSE UNCHANGED <<finished_, pushed, running_>>
  /\ ret' = Ret("DoWork", "", BoolVal(TRUE))
  /\ UNCHANGED batch_process_

\* DoWork when a process other than batch_process_ became Done.
DoWorkProcDone(subproc, after) ==
  /\ pc' = "idle"
  /\ procs' = [procs EXCEPT ![subproc] = after.proc]
  /\ os' = [os EXCEPT ![subproc] = after.io]
  /\ IF InSeq(running_, subproc)
     THEN /\ finished_' = Append(finished_, subproc)
          /\ pushed' = Append(pushed, subproc)
          /\ running_' = Remove(running_, subproc)
     ELSE UNCHANGED <<finished_, pushed, running_>>
  /\ ret' = Ret("DoWork", "", BoolVal(FALSE))
  /\ UNCHANGED batch_process_

\* DoWork from the return of GetQueuedCompletionStatus on: the oldest
\* queued key is taken; a process key is routed to OnPipeReady.  eof: the
\* ReadFile that OnPipeReady issues finds the pipe broken.
DoWorkWake ==
  /\ pc = "wait"
  /\ ioport # <<>>
  /\ ioport' = Tail(ioport)
  /\ LET subproc == Head(ioport)
     IN IF subproc = NULL
        THEN DoWorkInterrupted
        ELSE \E eof \in IF os[subproc].broken THEN {FALSE} ELSE BOOLEAN :
             \E after \in {OnPipeReady(procs[subproc], os[subproc], eof)} :
                /\ nstop' = nstop
                /\ IF after.fatal
                   THEN /\ pc' = "fatal"
                        /\ ret' = Ret("DoWork", "fatal", subproc)
                        /\ UNCHANGED <<procs, os, running_, finished_,
                                       batch_process_, pushed>>
                   ELSE IF ~Done(after.proc)
                   THEN /\ pc' = "idle"
                        /\ procs' = [procs EXCEPT ![subproc] = after.proc]
                        /\ os' = [os EXCEPT ![subproc] = after.io]
                        /\ ret' = Ret("DoWork", "", BoolVal(FALSE))
                        /\ UNCHANGED <<running_, finished_, batch_process_,
                                       pushed>>
                   ELSE IF subproc = batch_process_
                   THEN DoWorkBatchDone(after)
                   ELSE DoWorkProcDone(subproc, after)
  /\ UNCHANGED <<procs_to_batch_, batch_mode_, returned, nintr, marked>>

\* Variant: a NextFinished that takes the newest entry of finished_.
NextFinished_Newest ==
  /\ pc \in {"idle", "cleared"}
  /\ IF finished_ = <<>>
     THEN /\ ret' = Ret("NextFinished", "", NULL)
          /\ UNCHANGED <<finished_, returned>>
     ELSE /\ ret' = Ret("NextFinished", "", finished_[Len(finished_)])
          /\ finished_' = SubSeq(finished_, 1, Len(finished_) - 1)
          /\ returned' = Append(returned, finished_[Len(finished_)])
  /\ UNCHANGED <<procs, os, ioport, running_, procs_to_batch_, batch_mode_,
                 batch_process_, pc, pushed, nintr, nstop, marked>>

\* SubprocessSet::NextFinished.
NextFinished ==
  /\ pc \in {"idle", "cleared"}
  /\ IF finished_ = <<>>
     THEN /\ ret' = Ret("NextFinished", "", NULL)
          /\ UNCHANGED <<finished_, returned>>
     ELSE /\ ret' = Ret("NextFinished", "", Head(finished_))
          /\ finished_' = Tail(finished_)
          /\ returned' = Append(returned, Head(finished_))
  /\ UNCHANGED <<procs, os, ioport, running_, procs_to_batch_, batch_mode_,
                 batch_process_, pc, pushed, nintr, nstop, marked>>

\* SubprocessSet::Clear: every running process is signalled and deleted.
\* The scheduler calls it to abort, and drives the event loop no further.
Clear ==
  /\ pc = "idle"
  /\ pc' = "cleared"
  /\ procs' = [q \in ProcIds |->
                 IF InSeq(running_, q) THEN Destroy(procs[q]) ELSE procs[q]]
  /\ os' = [q \in ProcIds |-> IF InSeq(running_, q) THEN NoIo ELSE os[q]]
  /\ running_' = <<>>
  /\ ret' = Ret("Clear", "", NULL)
  /\ UNCHANGED <<ioport, finished_, procs_to_batch_, batch_mode_,
                 batch_process_, pushed, returned, nintr, nstop, marked>>

(***************************************************************************)
(* The operating system and the children: completions of the overlapped    *)
(* pipe operations, posted to the completion port.                         *)
(***************************************************************************)
\* Bytes one read of a directly started child's output may deliver.
DataChunks == {<<"a">>}

\* Output texts of one job of a batch.
JobOutputs == {<<"A", "\n">>}

PipePending(p) ==
  /\ pc # "fatal"
  /\ procs[p].st = "live"
  /\ procs[p].pipe_ = "open"
  /\ os[p].io = "pending"

Post(p, broken, data) ==
  /\ os' = [os EXCEPT ![p].io = "posted", ![p].broken = broken,
                      ![p].data = data,
                      ![p].reads = IF Len(data) > 0 THEN @ + 1 ELSE @]
  /\ ioport' = Append(ioport, p)
  /\ UNCHANGED <<procs, running_, finished_, procs_to_batch_, batch_mode_,
                 batch_process_, pc, ret, pushed, returned, nintr, nstop>>

\* A ReadFile on the pipe of a directly started child completes with data.
PipeData(p, data) ==
  /\ PipePending(p)
  /\ os[p].kind = "read"
  /\ ~procs[p].batch
  /\ os[p].reads < MaxReads
  /\ Post(p, FALSE, data)
  /\ UNCHANGED marked

\* A ReadFile on the pipe of a batch host completes with what the next job
\* of the script printed.
HostData(p, out, ok) ==
  /\ PipePending(p)
  /\ os[p].kind = "read"
  /\ procs[p].batch
  /\ os[p].reads < Len(procs[p].children)
  /\ Post(p, FALSE, JobSegment(os[p].reads, out, ok))
  /\ marked' = IF ok THEN marked \cup {procs[p].children[os[p].reads + 1]}
               ELSE marked

\* The child has closed its end: the pending read fails with
\* ERROR_BROKEN_PIPE.
PipeBroken(p) ==
  /\ PipePending(p)
  /\ os[p].kind = "read"
  /\ Post(p, TRUE, <<>>)
  /\ UNCHANGED marked

(***************************************************************************)
(* The event loop specification.                                           *)
(***************************************************************************)
\* No ParseOutput call of the parser specification is in progress.
NoParse == [ParseBegin(<<>>) EXCEPT !.pc = "none"]

NoInput == [kind |-> "none", buf |-> <<>>, jobs |-> <<>>]

\* No object of the capture specification exists.
NoCapture ==
  [ st |-> "none", found |-> FALSE, proc |-> FreeProc, io |-> NoIo,
    written |-> <<>>, exit_code |-> 0, results |-> <<>> ]

Init ==
  /\ SetInit
  /\ parse = NoParse
  /\ pin = NoInput
  /\ cap = NoCapture

\* The calls of the scheduler, the interrupt handler and the completions
\* the OS posts.  Inputs a path of DoWork does not read are fixed at one
\* value there.
Next ==
  \/ \E b \in BOOLEAN, has_runner \in BOOLEAN :
       SetBatchMode(b, has_runner) /\ UNCHANGED parseVars
  \/ \E command \in Commands, found \in BOOLEAN :
       /\ command = CommandOf(NumJobs + 1)
       /\ Add(command, found) /\ UNCHANGED parseVars
  \/ \E found \in BOOLEAN : DoWorkBegin(found) /\ UNCHANGED parseVars
  \/ DoWorkWake /\ UNCHANGED parseVars
  \/ NextFinished /\ UNCHANGED parseVars
  \/ Clear /\ UNCHANGED parseVars
  \/ \E t \in CtrlTypes : NotifyInterrupted(t) /\ UNCHANGED parseVars
  \/ \E p \in ProcIds, d \in DataChunks :
       PipeData(p, d) /\ UNCHANGED parseVars
  \/ \E p \in ProcIds, out \in JobOutputs, ok \in BOOLEAN :
       HostData(p, out, ok) /\ UNCHANGED parseVars
  \/ \E p \in ProcIds : PipeBroken(p) /\ UNCHANGED parseVars

Spec == Init /\ [][Next]_vars

(***************************************************************************)
(* The event loop kept running: the scheduler never aborts with Clear, it  *)
(* calls DoWork again and again, and the OS completes every pending pipe   *)
(* operation.                                                              *)
(***************************************************************************)
CallDoWorkBegin == \E found \in BOOLEAN : DoWorkBegin(found)

LiveNext ==
  \/ \E b \in BOOLEAN, has_runner \in BOOLEAN :
       SetBatchMode(b, has_runner) /\ UNCHANGED parseVars
  \/ \E command \in Commands, found \in BOOLEAN :
       /\ command = CommandOf(NumJobs + 1)
       /\ Add(command, found) /\ UNCHANGED parseVars
  \/ CallDoWorkBegin /\ UNCHANGED parseVars
  \/ DoWorkWake /\ UNCHANGED parseVars
  \/ NextFinished /\ UNCHANGED parseVars
  \/ \E t \in CtrlTypes : NotifyInterrupted(t) /\ UNCHANGED parseVars
  \/ \E p \in ProcIds, d \in DataChunks :
       PipeData(p, d) /\ UNCHANGED parseVars
  \/ \E p \in ProcIds, out \in JobOutputs, ok \in BOOLEAN :
       HostData(p, out, ok) /\ UNCHANGED parseVars
  \/ \E p \in ProcIds : PipeBroken(p) /\ UNCHANGED parseVars

LiveSpec ==
  /\ Init
  /\ [][LiveNext]_vars
  /\ WF_vars(CallDoWorkBegin /\ UNCHANGED parseVars)
  /\ WF_vars(DoWorkWake /\ UNCHANGED parseVars)

(***************************************************************************)
(* The parser specification: ParseOutput applied to bounded buffers.       *)
(***************************************************************************)
\* Sequences over S of length at most n.
SeqsUpTo(S, n) == UNION {[1..k -> S] : k \in 0..n}

RECURSIVE Concat(_)
Concat(ss) == IF ss = <<>> THEN <<>> ELSE Head(ss) \o Concat(Tail(ss))

\* "__batchitem": the start of both framing tokens.
Str_partial_token == SubSeq(Str_start_token, 1, 11)

\* The pieces free-form buffers are made of: text, line ends, whole marker
\* lines, bare tokens and the start of a token.
RawPieces ==
  { <<"x">>, <<"\n">>, <<"=", "7">>,
    MarkerLine(Str_complete_token, 0), Str_complete_token,
    MarkerLine(Str_start_token, 1), Str_start_token }

RawBuffers == {Concat(ps) : ps \in SeqsUpTo(RawPieces, MaxPieces)}

\* Output texts of the jobs of a script run: none, a line, text without a
\* line end, and text ending in the start of a token.
ScriptOutputs == {<<>>, <<"A", "\n">>, <<"B">>, Str_partial_token}

ScriptJobs ==
  SeqsUpTo([out : ScriptOutputs, ok : BOOLEAN], MaxScriptJobs)

ParseInit ==
  /\ SetInit
  /\ cap = NoCapture
  /\ \/ \E buf \in RawBuffers :
          /\ pin = [kind |-> "raw", buf |-> buf, jobs |-> <<>>]
          /\ parse = ParseBegin(buf)
     \/ \E jobs \in ScriptJobs :
          /\ pin = [kind |-> "script", buf |-> ScriptStream(jobs, 0),
                    jobs |-> jobs]
          /\ parse = ParseBegin(ScriptStream(jobs, 0))

\* One iteration of the completion-token loop.
ParseStripStep(ub) ==
  /\ parse.pc = "strip"
  /\ parse.loc # NPOS
  /\ ub = 0 \/ parse.loc + Len(Str_complete_token) + 1 > Len(parse.buf)
  /\ parse' = StripStep(parse, ub)
  /\ UNCHANGED <<pin, cap, setVars>>

\* The completion-token loop ends.
ParseStripEnd ==
  /\ parse.pc = "strip"
  /\ parse.loc = NPOS
  /\ parse' = StripEnd(parse)
  /\ UNCHANGED <<pin, cap, setVars>>

\* One iteration of the start-token loop.
ParseSplitStep(ub) ==
  /\ parse.pc = "split"
  /\ parse.loc # NPOS
  /\ ub = 0 \/ parse.loc + Len(Str_start_token) + 1 > Len(parse.buf)
  /\ parse' = SplitStep(parse, ub)
  /\ UNCHANGED <<pin, cap, setVars>>

\* The start-token loop ends.
ParseSplitEnd ==
  /\ parse.pc = "split"
  /\ parse.loc = NPOS
  /\ parse' = SplitEnd(parse)
  /\ UNCHANGED <<pin, cap, setVars>>

ParseNext ==
  \/ \E ub \in GarbageIds : ParseStripStep(ub)
  \/ ParseStripEnd
  \/ \E ub \in GarbageIds : ParseSplitStep(ub)
  \/ ParseSplitEnd

ParseSpec == ParseInit /\ [][ParseNext]_vars

\* The same call, kept executing: a ParseOutput call that can take a step
\* takes one.
ParseLiveSpec == ParseInit /\ [][ParseNext]_vars /\ WF_vars(ParseNext)

(***************************************************************************)
(* The capture specification: one Subprocess object from its construction  *)
(* to the Finish calls made on it.  It is either started directly, its     *)
(* pipe then being served by OnPipeReady as DoWork routes the completions  *)
(* to it, or it is the child of a batch and is given its result by the     *)
(* loop over GetChildren() in DoWork.                                      *)
(***************************************************************************)
\* What one read of the child's output may deliver.
OutputChunks == {<<"a">>, <<"b">>, <<"a", "b">>}

\* Statuses a batch host may have finished with.
ExitStatuses == {"ExitSuccess", "ExitFailure", "ExitInterrupted"}

\* Parsed outputs of job 0 of a batch: none recorded, or a line.
DemuxOutputs == {EmptyMap, MapPut(EmptyMap, 0, <<"A", "\n">>)}

CaptureInit ==
  /\ SetInit
  /\ parse = NoParse
  /\ pin = NoInput
  /\ cap = [NoCapture EXCEPT !.st = "new", !.proc = NewSubprocess]

\* Start on the new object.  exit_code: the code its child exits with.
CaptureStart(found, exit_code) ==
  /\ cap.st = "new"
  /\ \E started \in {Start(cap.proc, cap.io, found)} :
       cap' = [cap EXCEPT !.st = "started", !.found = found,
                          !.proc = started.proc, !.io = started.io,
                          !.exit_code = exit_code]
  /\ UNCHANGED <<parse, pin, setVars>>

\* The object is child 0 of a batch whose host has become Done.
CaptureDemux(err, successful_jobs, job_output) ==
  /\ cap.st = "new"
  /\ cap' = [cap EXCEPT
              !.st = "demuxed",
              !.proc = DemuxChild(cap.proc, 0, err, successful_jobs,
                                  job_output)]
  /\ UNCHANGED <<parse, pin, setVars>>

\* DoWork dequeues the completion of the object's pipe operation and calls
\* OnPipeReady.  eof: the ReadFile it issues finds the pipe broken.
CaptureOnPipeReady(eof) ==
  /\ cap.st = "started"
  /\ cap.io.io = "posted"
  /\ \E after \in {OnPipeReady(cap.proc, cap.io, eof)} :
       cap' = IF after.fatal
              THEN [cap EXCEPT !.st = "fatal"]
              ELSE [cap EXCEPT !.proc = after.proc, !.io = after.io]
  /\ UNCHANGED <<parse, pin, setVars>>

\* The pending ReadFile completes with bytes the child wrote.
CaptureWrite(data) ==
  /\ cap.st = "started"
  /\ cap.proc.pipe_ = "open"
  /\ cap.io.io = "pending"
  /\ Len(cap.written) + Len(data) <= MaxOutput
  /\ cap' = [cap EXCEPT !.io.io = "posted", !.io.data = data,
                        !.io.reads = @ + 1,
                        !.written = @ \o data]
  /\ UNCHANGED <<parse, pin, setVars>>

\* The child closes its end of the pipe: the pending ReadFile fails with
\* ERROR_BROKEN_PIPE.
CaptureClose ==
  /\ cap.st = "started"
  /\ cap.proc.pipe_ = "open"
  /\ cap.io.io = "pending"
  /\ cap' = [cap EXCEPT !.io.io = "posted", !.io.broken = TRUE,
                        !.io.data = <<>>]
  /\ UNCHANGED <<parse, pin, setVars>>

\* The owner of the handle calls Finish on the object, which is Done.
CaptureFinish ==
  /\ cap.st \in {"started", "demuxed"}
  /\ Done(cap.proc)
  /\ Len(cap.results) < MaxFinishCalls
  /\ \E fin \in {Finish(cap.proc, cap.exit_code)} :
       cap' = [cap EXCEPT !.proc = fin.proc,
                          !.results = Append(@, fin.status)]
  /\ UNCHANGED <<parse, pin, setVars>>

CaptureNext ==
  \/ \E found \in BOOLEAN, exit_code \in ExitCodes :
       CaptureStart(found, exit_code)
  \/ \E err \in ExitStatuses, successful_jobs \in {{}, {0}},
        job_output \in DemuxOutputs :
       CaptureDemux(err, successful_jobs, job_output)
  \/ \E eof \in BOOLEAN : CaptureOnPipeReady(eof)
  \/ \E data \in OutputChunks : CaptureWrite(data)
  \/ CaptureClose
  \/ CaptureFinish

CaptureSpec == CaptureInit /\ [][CaptureNext]_vars

(***************************************************************************)
(* Properties.                                                             *)
(***************************************************************************)
\* How often x occurs in the sequence v.
Occ(v, x) == Cardinality({i \in 1..Len(v) : v[i] = x})

\* The job handles Add has returned and NextFinished has not.
OutstandingJobs ==
  {j \in ProcIds : procs[j].st # "free" /\ ~procs[j].batch
                   /\ ~InSeq(returned, j)}

\* In how many places of running, finished and pending-batch handle j is.
Memberships(j) ==
  Occ(running_, j) + Occ(finished_, j)
  + Cardinality({i \in 1..Len(procs_to_batch_) :
                   procs_to_batch_[i].first = j})

\* j is a recorded child of a batch host that exists and has not been
\* demultiplexed.
ChildOfLiveHost(j) ==
  \E h \in ProcIds : /\ procs[h].st = "live"
                     /\ procs[h].batch
                     /\ InSeq(procs[h].children, j)

\* C1 as stated: as long as Clear has not been called, every job handle
\* that Add has returned and NextFinished has not yet returned is in exactly
\* one of running, finished and pending-batch.
C1_ExactlyOneCollection ==
  pc # "cleared" => \A j \in OutstandingJobs : Memberships(j) = 1

\* C1 amended: as long as Clear has not been called, every outstanding job
\* handle is in at most one of running, finished and pending-batch, and it
\* is in none of them exactly while it is a recorded child of a batch host
\* that DoWork created and has not demultiplexed.
C1_AtMostOneCollection ==
  pc # "cleared" =>
    \A j \in OutstandingJobs :
      /\ Memberships(j) <= 1
      /\ (Memberships(j) = 0) <=> ChildOfLiveHost(j)

\* A job of a batch between the DoWork that flushed it into a running host
\* and the DoWork that detects the host's completion.
C1_Witness ==
  \E j \in OutstandingJobs, h \in ProcIds :
    /\ pc = "idle"
    /\ InSeq(running_, h)
    /\ procs[h].batch
    /\ InSeq(procs[h].children, j)
    /\ Memberships(j) = 0

\* C2, in the form a finite run refutes: once a started batch host is Done
\* (its end of output has been routed through OnPipeReady, after which no
\* further event arrives for it), every one of its children has been pushed
\* onto finished.  Eventual completion of the batch's jobs requires it.
C2_BatchJobsReachFinished ==
  pc # "cleared" =>
    \A h \in ProcIds :
      (procs[h].batch /\ procs[h].is_reading_ /\ Done(procs[h])) =>
        \A i \in 1..Len(procs[h].children) :
          InSeq(pushed, procs[h].children[i])

\* C3: finished is a FIFO.  What NextFinished has returned so far, followed
\* by what is queued, is the sequence of pushes in push order; a
\* NextFinished call on a non-empty queue returns the oldest entry, and one
\* on an empty queue returns NULL and changes nothing else.
C3_CompletionOrder ==
  [][ /\ returned' \o finished_' = pushed'
      /\ (ret'.op = "NextFinished" /\ (ret' # ret \/ returned' # returned)) =>
           IF finished_ = <<>>
           THEN /\ ret'.val = NULL
                /\ UNCHANGED <<procs, os, ioport, running_, finished_,
                               procs_to_batch_, batch_mode_, batch_process_,
                               pc, pushed, returned>>
           ELSE /\ ret'.val = Head(finished_)
                /\ finished_' = Tail(finished_)
                /\ returned' = Append(returned, ret'.val) ]_vars

\* Two jobs retrieved in the order they completed, the reverse of the order
\* they were added in.
C3_Witness ==
  /\ Len(returned) = 2
  /\ returned[1] > returned[2]
  /\ ret.op = "NextFinished"
  /\ \A i \in 1..2 : procs[returned[i]].is_reading_

\* C4: a demultiplexed job whose completion marker the host did not print
\* is reported as a failure whatever the host's exit code; stated here in
\* the part of it that the marker is the sole success signal: such a job
\* is never reported as a success.
C4_UnmarkedJobFails ==
  \A c \in ProcIds :
    (procs[c].use_override_status_ /\ c \notin marked) =>
      Finish(procs[c], 0).status # "ExitSuccess"

\* C5 as stated: after Clear, running is empty and no object known to the
\* set holds a live pipe or process handle.
C5_NoLiveHandles ==
  pc = "cleared" =>
    /\ running_ = <<>>
    /\ \A p \in ProcIds :
         procs[p].pipe_ = "NULL" /\ procs[p].child_ = "NULL"

\* C5 amended: after Clear, running is empty, no object holds a live pipe
\* handle, and the only objects that still hold a process handle are those
\* that had been moved to finished before (Clear destroys what is in
\* running and leaves finished alone).
C5_RunningReclaimed ==
  pc = "cleared" =>
    /\ running_ = <<>>
    /\ \A p \in ProcIds :
         /\ procs[p].pipe_ = "NULL"
         /\ procs[p].child_ # "NULL" => InSeq(pushed, p)

\* Clear has destroyed a directly started process that was running while a
\* completed one waits in finished.
C5_Witness ==
  /\ pc = "cleared"
  /\ finished_ # <<>>
  /\ \E p \in ProcIds : procs[p].st = "deleted" /\ ~procs[p].batch
  /\ \E h \in ProcIds : procs[h].st = "deleted" /\ procs[h].batch

\* The buffer holds token tok somewhere.
Contains(buf, tok) == Find(buf, tok, 0) # NPOS

\* ParseOutput has returned with the buffer it was given and empty results.
ParseLeftAlone ==
  /\ parse.buf = pin.buf
  /\ parse.successful_jobs = {}
  /\ parse.job_output = EmptyMap

ZeroExitIds(jobs) == {i \in 0..(Len(jobs) - 1) : jobs[i + 1].ok}

\* Text out ends in the beginning of a framing token: a non-empty suffix of
\* it is a proper prefix of the completion token or of the start token.
EndsInTokenStart(out) ==
  \E k \in 1..Min(Len(out), Len(Str_complete_token) - 1) :
    \/ SubSeq(out, Len(out) - k + 1, Len(out)) =
         SubSeq(Str_complete_token, 1, k)
    \/ /\ k < Len(Str_start_token)
       /\ SubSeq(out, Len(out) - k + 1, Len(out)) =
            SubSeq(Str_start_token, 1, k)

TokenFree(out) ==
  ~Contains(out, Str_start_token) /\ ~Contains(out, Str_complete_token)

\* C7 as stated: the stream of a script run over jobs with token-free
\* outputs parses into the set of jobs that exited zero and, for every job,
\* exactly its output text; a failing job is in neither the success set nor
\* the output map, or is in the map with empty text only.
C7_RoundTrip ==
  (/\ parse.pc = "done"
   /\ pin.kind = "script"
   /\ \A i \in 1..Len(pin.jobs) : TokenFree(pin.jobs[i].out)) =>
    /\ parse.successful_jobs = ZeroExitIds(pin.jobs)
    /\ \A i \in 0..(Len(pin.jobs) - 1) :
         /\ MapGet(parse.job_output, i) = pin.jobs[i + 1].out
         /\ ~pin.jobs[i + 1].ok =>
              (i \notin DOMAIN parse.job_output
               \/ parse.job_output[i] = <<>>)

\* C7 amended: when no output text holds a framing token or ends in the
\* beginning of one, the stream parses into the set of jobs that exited
\* zero and an output map that has an entry for every job, failing jobs
\* included, equal to exactly that job's output text.
C7_RoundTripAmended ==
  (/\ parse.pc = "done"
   /\ pin.kind = "script"
   /\ \A i \in 1..Len(pin.jobs) :
        TokenFree(pin.jobs[i].out) /\ ~EndsInTokenStart(pin.jobs[i].out)) =>
    /\ parse.successful_jobs = ZeroExitIds(pin.jobs)
    /\ DOMAIN parse.job_output = 0..(Len(pin.jobs) - 1)
    /\ \A i \in 0..(Len(pin.jobs) - 1) :
         parse.job_output[i] = pin.jobs[i + 1].out

\* The stream of two jobs has been parsed: the first failed after printing
\* text, the second succeeded.
C7_Witness ==
  /\ parse.pc = "done"
  /\ pin.kind = "script"
  /\ Len(pin.jobs) = 2
  /\ ~pin.jobs[1].ok /\ pin.jobs[1].out = <<"B">>
  /\ pin.jobs[2].ok /\ pin.jobs[2].out = <<"A", "\n">>
  /\ parse.job_output[0] = <<"B">>

\* p is a handle Add returned, with batching disabled, for a command whose
\* executable does not exist.
NotFoundJob(p) ==
  /\ procs[p].st = "live"
  /\ ~procs[p].batch
  /\ ~procs[p].use_override_status_
  /\ procs[p].buf_ = Str_not_found

\* C8: with batching disabled, a handle Add returned for a command whose
\* executable does not exist was placed in finished and never in running,
\* is Done, has output, holds no process handle and its Finish returns
\* failure; and the set remains usable: no later DoWork call ends the
\* program on an event of that handle.
C8_NotFoundIsJobFailure ==
  \A p \in ProcIds :
    NotFoundJob(p) =>
      /\ Occ(pushed, p) = 1
      /\ ~InSeq(running_, p)
      /\ Done(procs[p])
      /\ Len(procs[p].buf_) > 0
      /\ procs[p].child_ = "NULL"
      /\ \A code \in ExitCodes : Finish(procs[p], code).status = "ExitFailure"
      /\ ~(pc = "fatal" /\ ret = Ret("DoWork", "fatal", p))

\* C9: when the key DoWork dequeues is null, DoWork returns true (stop) and
\* from the wait on changes no object, no pending pipe operation and no
\* collection: finished holds the same handles in the same order.
C9_InterruptTouchesNothing ==
  [][ (/\ pc = "wait"
       /\ pc' # "wait"
       /\ ioport # <<>>
       /\ Head(ioport) = NULL) =>
        /\ ret' = Ret("DoWork", "", BoolVal(TRUE))
        /\ ioport' = Tail(ioport)
        /\ UNCHANGED <<procs, os, running_, finished_, procs_to_batch_,
                       batch_mode_, batch_process_, pushed, returned>> ]_vars

\* DoWork has returned stop while completed processes were queued in
\* finished and others were still running.
C9_Witness ==
  /\ ret = Ret("DoWork", "", BoolVal(TRUE))
  /\ nstop = 1
  /\ finished_ # <<>>
  /\ running_ # <<>>

\* C10: every Ctrl-C / Ctrl-Break delivered to the handler appends exactly
\* one null key to the completion port and changes nothing else, and while
\* DoWork keeps being called (the program has not been ended by Win32Fatal
\* and no DoWork call is stuck in ParseOutput) the k-th such signal leads
\* to a k-th DoWork call that returns stop.
C10_InterruptWakesLoop ==
  /\ [][ nintr' = nintr + 1 =>
           /\ ioport' = Append(ioport, NULL)
           /\ nstop' = nstop ]_vars
  /\ \A k \in 1..MaxInterrupts :
       (nintr >= k) ~> (nstop >= k \/ pc \in {"fatal", "hung"})

\* An interrupt was delivered while the loop was not in the wait, with
\* other events queued before it, and a later DoWork returned stop.
C10_Witness ==
  /\ nintr = 1
  /\ nstop = 1
  /\ ret = Ret("DoWork", "", BoolVal(TRUE))
  /\ returned # <<>>

\* C11: a step of the interrupt handler (the only step that appends a null
\* key to the completion port), at whatever point of the event loop it is
\* interleaved, changes nothing but the port's queue: the collections, the
\* active-batch reference, the batch mode, the loop's position and result,
\* and every process object and pending pipe operation stay as they were.
C11_HandlerIsolation ==
  [][ ioport' = Append(ioport, NULL) =>
        UNCHANGED <<procs, os, running_, finished_, procs_to_batch_,
                    batch_mode_, batch_process_, pc, ret, pushed,
                    returned>> ]_vars

\* The handler has run while DoWork was blocked in the wait, with processes
\* running, results queued in finished and jobs pending for a batch.
C11_Witness ==
  /\ nintr = 1
  /\ pc = "wait"
  /\ ioport # <<>>
  /\ ioport[Len(ioport)] = NULL
  /\ running_ # <<>>
  /\ finished_ # <<>>

\* C12: a DoWork call returns stop (true) exactly when the key it dequeued
\* is null; a call that dequeued the key of a process and returns, returns
\* continue (false), whether the process stays open, becomes Done or is the
\* batch host.  (A call ended by Win32Fatal or stuck in ParseOutput returns
\* nothing.)
C12_DoWorkReturnValue ==
  [][ (pc = "wait" /\ pc' # "wait") =>
        IF Head(ioport) = NULL
        THEN pc' = "idle" /\ ret' = Ret("DoWork", "", BoolVal(TRUE))
        ELSE /\ pc' \in {"idle", "fatal", "hung"}
             /\ pc' = "idle" => ret' = Ret("DoWork", "", BoolVal(FALSE)) ]_vars

\* DoWork has returned continue from the call in which a batch host became
\* Done, after an earlier call had returned stop.
C12_Witness ==
  /\ pc = "idle"
  /\ ret = Ret("DoWork", "", BoolVal(FALSE))
  /\ nstop = 1
  /\ batch_process_ = NULL
  /\ \E h \in ProcIds : procs[h].batch /\ procs[h].st = "deleted"

\* C13: for a directly started process whose executable was found, the
\* bytes of every read completion are appended to buf_ exactly once and in
\* order, and nothing is appended for the connect completion: buf_ followed
\* by the bytes of a completion not yet handled is what the child has
\* written.  Once the process is Done, buf_ is exactly what the child wrote,
\* and when the child exits with code 0 the first Finish returns success.
C13_CaptureRoundTrip ==
  (cap.st = "started" /\ cap.found) =>
    /\ cap.proc.buf_
         \o (IF cap.io.io = "posted" THEN cap.io.data ELSE <<>>)
       = cap.written
    /\ Done(cap.proc) => cap.proc.buf_ = cap.written
    /\ (cap.results # <<>> /\ cap.exit_code = 0) =>
         cap.results[1] = "ExitSuccess"

\* A child wrote "b" and then "ab" in two reads, closed the pipe and exited
\* with 0; the process is Done and Finish has been called once.
C13_Witness ==
  /\ cap.st = "started"
  /\ cap.found
  /\ Done(cap.proc)
  /\ cap.io.reads = 2
  /\ cap.io.broken
  /\ cap.written = <<"b", "a", "b">>
  /\ cap.proc.buf_ = <<"b", "a", "b">>
  /\ cap.exit_code = 0
  /\ cap.results = <<"ExitSuccess">>

\* C14: a Finish call on an object with a live process handle and no
\* override status returns success for exit code 0, interrupted for
\* CONTROL_C_EXIT and failure for any other code, and releases the handle;
\* on an object with an override status it returns that status and leaves
\* the object, its handle included, as it was.
C14_ExitClassification ==
  [][ Len(cap'.results) = Len(cap.results) + 1 =>
        LET status == cap'.results[Len(cap'.results)]
        IN /\ (~cap.proc.use_override_status_ /\ cap.proc.child_ # "NULL") =>
                /\ cap.exit_code = 0 => status = "ExitSuccess"
                /\ cap.exit_code = CONTROL_C_EXIT =>
                     status = "ExitInterrupted"
                /\ cap.exit_code \notin {0, CONTROL_C_EXIT} =>
                     status = "ExitFailure"
                /\ cap'.proc.child_ = "NULL"
           /\ cap.proc.use_override_status_ =>
                /\ status = cap.proc.override_status_
                /\ cap'.proc = cap.proc ]_vars

\* Finish has classified a child that exited with CONTROL_C_EXIT and has
\* released its handle.
C14_Witness ==
  /\ cap.st = "started"
  /\ cap.found
  /\ cap.exit_code = CONTROL_C_EXIT
  /\ cap.results = <<"ExitInterrupted">>
  /\ cap.proc.child_ = "NULL"
  /\ ~cap.proc.use_override_status_

\* h is a batch host DoWork created and whose runner executable does not
\* exist.
NotFoundHost(h) ==
  /\ procs[h].batch
  /\ procs[h].st # "free"
  /\ procs[h].buf_ = Str_not_found
  /\ procs[h].child_ = "NULL"

\* C15: when the runner of a batch host does not exist, the batch is
\* reported as a job failure through finished: once the DoWork call that
\* created the host has got past its wait, every job of the batch has been
\* pushed onto finished with a failure status, and the program has not been
\* ended on an event of the host.
C15_HostNotFoundReported ==
  \A h \in ProcIds :
    (NotFoundHost(h) /\ pc # "wait") =>
      /\ pc # "fatal"
      /\ \A i \in 1..Len(procs[h].children) :
           LET j == procs[h].children[i]
           IN /\ InSeq(pushed, j)
              /\ \A code \in ExitCodes :
                   Finish(procs[j], code).status = "ExitFailure"

\* C16: in the DoWork step in which the active batch host becomes Done and
\* is demultiplexed, its N children and nothing else are pushed onto
\* finished in the order of their job ids 0..N-1; the child with id i gets
\* the override status success if i is in the set of successful ids parsed
\* from the host's output and the host's own exit classification otherwise,
\* and as output the text parsed for id i, empty if there is none; the host
\* is removed from running, is not pushed onto finished, and is released.
C16_BatchDemux ==
  [][ (pc = "wait" /\ batch_process_ # NULL /\ batch_process_' = NULL) =>
        LET h == batch_process_
            ch == procs[h].children
        IN /\ Head(ioport) = h
           /\ ~InSeq(ch, h)
           /\ finished_' = finished_ \o ch
           /\ pushed' = pushed \o ch
           /\ ~InSeq(running_', h)
           /\ procs'[h].st = "deleted"
           /\ \E eof \in BOOLEAN, ub \in GarbageIds, code \in ExitCodes :
              \E parsed \in
                  {ParseOutput(OnPipeReady(procs[h], os[h], eof).proc.buf_,
                               ub)} :
                \A i \in 1..Len(ch) :
                  /\ procs'[ch[i]].use_override_status_
                  /\ procs'[ch[i]].override_status_ =
                       IF (i - 1) \in parsed.successful_jobs
                       THEN "ExitSuccess"
                       ELSE IF code = 0 THEN "ExitSuccess"
                       ELSE IF code = CONTROL_C_EXIT THEN "ExitInterrupted"
                       ELSE "ExitFailure"
                  /\ procs'[ch[i]].buf_ =
                       IF (i - 1) \in DOMAIN parsed.job_output
                       THEN parsed.job_output[i - 1] ELSE <<>> ]_vars

\* A batch of two jobs has been demultiplexed: job 0 printed its completion
\* marker and is a success with its output, job 1 did not and has the
\* host's failure; both are in finished in that order and the host is
\* released.
C16_Witness ==
  \E h \in ProcIds :
    /\ procs[h].batch
    /\ procs[h].st = "deleted"
    /\ Len(procs[h].children) = 2
    /\ finished_ = procs[h].children
    /\ pc = "idle"
    /\ ret = Ret("DoWork", "", BoolVal(FALSE))
    /\ procs[procs[h].children[1]].use_override_status_
    /\ procs[procs[h].children[1]].override_status_ = "ExitSuccess"
    /\ procs[procs[h].children[1]].buf_ = <<"A", "\n">>
    /\ procs[procs[h].children[2]].override_status_ = "ExitFailure"
    /\ procs[procs[h].children[2]].use_override_status_

\* C17: a DoWork call entered with a non-empty pending-batch list creates
\* exactly one batch host from the whole list and leaves the list empty;
\* the host has as many children as the list had jobs, child i being the
\* i-th job in the order of the Add calls, and the script gives that job's
\* command the id i (counted from 0) in both of its marker lines.  With
\* batching enabled an Add call starts no process: it only creates the
\* object and appends it to the pending-batch list.
C17_BatchFlush ==
  [][ /\ (pc = "idle" /\ pc' = "wait" /\ procs_to_batch_ # <<>>) =>
           LET host == NumAlloc + 1
               n == Len(procs_to_batch_)
           IN /\ procs_to_batch_' = <<>>
              /\ NumAlloc' = NumAlloc + 1
              /\ NumBatches' = NumBatches + 1
              /\ procs'[host].batch
              /\ batch_process_' = host
              /\ Len(procs'[host].children) = n
              /\ \A i \in 1..n :
                   procs'[host].children[i] = procs_to_batch_[i].first
              /\ os'[host].script =
                   Concat([i \in 1..n |->
                             Str_echo \o Str_start_token \o <<"=">>
                             \o Dec(i - 1) \o <<"\n">>
                             \o procs_to_batch_[i].second
                             \o Str_and_echo \o Str_complete_token
                             \o <<"=">> \o Dec(i - 1) \o <<"\n">>])
      /\ (batch_mode_ /\ NumJobs' = NumJobs + 1) =>
           LET subprocess == NumAlloc + 1
           IN /\ procs'[subprocess] = NewSubprocess
              /\ procs'[subprocess].child_ = "NULL"
              /\ procs'[subprocess].pipe_ = "NULL"
              /\ Len(procs_to_batch_') = Len(procs_to_batch_) + 1
              /\ procs_to_batch_'[Len(procs_to_batch_')].first = subprocess
              /\ UNCHANGED <<os, ioport, running_, finished_,
                             batch_process_>> ]_vars

\* DoWork has made one host of two pending jobs with different command
\* lines and is in its wait.
C17_Witness ==
  /\ pc = "wait"
  /\ procs_to_batch_ = <<>>
  /\ batch_process_ # NULL
  /\ procs[batch_process_].st = "live"
  /\ Len(procs[batch_process_].children) = 2
  /\ os[batch_process_].script =
       ScriptContents(<<[first |-> 1, second |-> <<"r","u","n">>],
                        [first |-> 2, second |-> <<"c","l">>]>>, 0)

\* C18: ParseOutput returns on every finite buffer, also on one in which a
\* completion or start token is not followed by a newline.
C18_ParseTerminates == <>(parse.pc = "done")

\* C19: every handle pushed onto finished, and so every handle NextFinished
\* returns, is a job handle an earlier Add call returned; a batch host made
\* by DoWork is never in finished and is never returned.
C19_OnlyJobHandlesReturned ==
  /\ \A i \in 1..Len(finished_) : ~procs[finished_[i]].batch
  /\ \A i \in 1..Len(returned) : ~procs[returned[i]].batch
  /\ ret.op = "NextFinished" /\ ret.val # NULL => ~procs[ret.val].batch

\* C20: a second Finish call on an object returns the classification the
\* first call returned, for an object with an override status and for a
\* directly started process whose first Finish released the handle.
C20_FinishIdempotent ==
  Len(cap.results) >= 2 => cap.results[2] = cap.results[1]

=============================================================================
